---- MODULE Spec2Model ----
(***************************************************************************)
(* Model of custom_widget/wireplumber_volume.py: the wpctl status parser   *)
(* (WirePlumberSink), the command dispatcher (WirePlumberConnection) and   *)
(* the widget command surface (WirePlumberVolume), run against a model of  *)
(* the audio service that answers the wpctl commands.                      *)
(*                                                                         *)
(* Text is modelled as a sequence of one-character strings, so that        *)
(* str.split, the substring tests, int() and float() are computed on the   *)
(* characters as the Python code computes them.  Sequences are indexed     *)
(* from 0 through At0/From0/Upto0 where the code does.  Volumes are        *)
(* integers in hundredths of full scale (0.05 is 5), which is also the     *)
(* 0-100 percentage that get_volume returns.                               *)
(***************************************************************************)
EXTENDS Integers, Sequences, FiniteSets, TLC

\* ------------------------------------------------------------------ bounds
MaxSinks == 3
MaxCmds == 2

\* ------------------------------------------------------- python primitives
None == -1

Whitespace == {" ", "\t", "\n"}

DigitChars == <<"0", "1", "2", "3", "4", "5", "6", "7", "8", "9">>

IsDigit(c) == \E i \in 1..10 : DigitChars[i] = c

DigitVal(c) == (CHOOSE i \in 1..10 : DigitChars[i] = c) - 1

At0(s, i) == s[i + 1]

\* s[lo:] for lo >= 0
From0(s, lo) == IF lo >= Len(s) THEN <<>> ELSE SubSeq(s, lo + 1, Len(s))

\* s[:stop], a negative stop counting from the end as Python slices do
Upto0(s, stop) ==
    LET st == IF stop < 0 THEN (IF Len(s) + stop < 0 THEN 0 ELSE Len(s) + stop)
              ELSE (IF stop > Len(s) THEN Len(s) ELSE stop)
    IN SubSeq(s, 1, st)

Min(S) == CHOOSE x \in S : \A y \in S : x <= y

\* the pieces of s that start at the positions A and end at the positions B,
\* taken in order
RECURSIVE Pieces(_, _, _)
Pieces(s, A, B) ==
    IF A = {} THEN <<>>
    ELSE <<SubSeq(s, Min(A), Min(B))>> \o Pieces(s, A \ {Min(A)}, B \ {Min(B)})

\* str.split() with no argument: the maximal runs of non-whitespace
split(s) ==
    LET starts == {i \in 1..Len(s) :
                      s[i] \notin Whitespace /\ (i = 1 \/ s[i - 1] \in Whitespace)}
        ends   == {i \in 1..Len(s) :
                      s[i] \notin Whitespace /\ (i = Len(s) \/ s[i + 1] \in Whitespace)}
    IN Pieces(s, starts, ends)

\* str.split(sep) for a one-character separator: the pieces between the
\* separators, empty pieces kept
split_on(s, sep) ==
    LET cuts == {i \in 1..Len(s) : s[i] = sep}
    IN Pieces(s, {1} \cup {i + 1 : i \in cuts}, {i - 1 : i \in cuts} \cup {Len(s)})

\* pat in s, for strings
Contains(s, pat) ==
    \E i \in 1..(Len(s) - Len(pat) + 1) :
        s[i] = pat[1] /\ SubSeq(s, i, i + Len(pat) - 1) = pat

\* tok in tokens, for lists
InList(tok, tokens) == \E i \in 1..Len(tokens) : tokens[i] = tok

RECURSIVE join(_, _)
join(sep, parts) ==
    IF parts = <<>> THEN <<>>
    ELSE IF Len(parts) = 1 THEN parts[1]
    ELSE parts[1] \o sep \o join(sep, Tail(parts))

RECURSIVE strip(_, _)
strip(s, c) ==
    IF s = <<>> THEN s
    ELSE IF Head(s) = c THEN strip(Tail(s), c)
    ELSE IF s[Len(s)] = c THEN strip(SubSeq(s, 1, Len(s) - 1), c)
    ELSE s

startswith(s, c) == s # <<>> /\ s[1] = c

RECURSIVE takewhile_not_bracket(_)
takewhile_not_bracket(tokens) ==
    IF tokens = <<>> THEN <<>>
    ELSE IF startswith(Head(tokens), "[") THEN <<>>
    ELSE <<Head(tokens)>> \o takewhile_not_bracket(Tail(tokens))

RECURSIVE DigitsValue(_, _)
DigitsValue(s, acc) ==
    IF s = <<>> THEN acc ELSE DigitsValue(Tail(s), acc * 10 + DigitVal(Head(s)))

AllDigits(s) == s # <<>> /\ \A i \in 1..Len(s) : IsDigit(s[i])

\* int(s) accepts an optional sign then decimal digits, and raises
\* ValueError otherwise
IntLiteral(s) ==
    LET body == IF s # <<>> /\ s[1] \in {"+", "-"} THEN Tail(s) ELSE s
    IN AllDigits(body)

int(s) ==
    LET neg  == s[1] = "-"
        body == IF s[1] \in {"+", "-"} THEN Tail(s) ELSE s
    IN IF neg THEN 0 - DigitsValue(body, 0) ELSE DigitsValue(body, 0)

RECURSIVE Pow10(_)
Pow10(n) == IF n = 0 THEN 1 ELSE 10 * Pow10(n - 1)

\* float(s) for the literals d+ and d*.d*: the value as mant / 10^exp
FloatLiteral(s) ==
    LET parts == split_on(s, ".")
    IN /\ Len(parts) \in {1, 2}
       /\ \A i \in 1..Len(parts) : \A j \in 1..Len(parts[i]) : IsDigit(parts[i][j])
       /\ \E i \in 1..Len(parts) : parts[i] # <<>>

float(s) ==
    LET parts == split_on(s, ".")
        frac  == IF Len(parts) = 2 THEN parts[2] ELSE <<>>
    IN [mant |-> DigitsValue(parts[1] \o frac, 0), exp |-> Len(frac)]

\* the scaling to a percentage left out
Times100_unscaled(f) == f.mant \div Pow10(f.exp)

\* float * 100, an integer here because replies carry at most two decimals
Times100(f) == (f.mant * 100) \div Pow10(f.exp)

\* ------------------------------------------------- literal command tokens
SinksMarker == <<"S", "i", "n", "k", "s", ":">>

SourcesMarker == <<"S", "o", "u", "r", "c", "e", "s", ":">>

StarToken == <<"*">>

MutedTag == <<"[", "M", "U", "T", "E", "D", "]">>

\* WirePlumberMuteStatus
MUTED == "1"

UNMUTED == "0"

TOGGLE == "toggle"

\* WirePlumberVolumeSign
ABSOLUTE == ""

INCREASE == "+"

DECREASE == "-"

\* ---------------------------------------------------------- WirePlumberSink
WirePlumberSink(object_id, nick, is_default) ==
    [object_id |-> object_id, nick |-> nick, is_default |-> is_default]

NoSink == WirePlumberSink(0, <<>>, FALSE)

Raised(e) == [err |-> e, sink |-> NoSink]

Returned(sink) == [err |-> "", sink |-> sink]

\* the id token taken as the first token of the line
IdTokenIndex_noPrefix(is_default) == IF is_default THEN 1 ELSE 0

\* the position of the id token: 1, or 2 when a '*' token is in the line
IdTokenIndex(is_default) == IF is_default THEN 2 ELSE 1

parse_sink_status_line(status_line) ==
    LET tokens     == split(status_line)
        is_default == InList(StarToken, tokens)
        idx        == IdTokenIndex(is_default)
    IN IF idx >= Len(tokens) THEN Raised("IndexError")
       ELSE LET idtok == strip(At0(tokens, idx), ".")
            IN IF ~IntLiteral(idtok) THEN Raised("ValueError")
               ELSE Returned(WirePlumberSink(
                        int(idtok),
                        join(<<" ">>, takewhile_not_bracket(From0(tokens, idx + 1))),
                        is_default))

\* the loops taken to leave idx past the end when nothing matches
LoopBreakIdx_pastEnd(lines, pat, prev) ==
    LET hits == {i \in 1..Len(lines) : Contains(lines[i], pat)}
    IN IF lines = <<>> THEN prev
       ELSE IF hits # {} THEN Min(hits) - 1
       ELSE Len(lines)

\* the value of idx after "for idx, line in enumerate(lines): if pat in line:
\* break": the first matching index, the last index when nothing matches,
\* and the value it had before (prev) when lines is empty
LoopBreakIdx(lines, pat, prev) ==
    LET hits == {i \in 1..Len(lines) : Contains(lines[i], pat)}
    IN IF lines = <<>> THEN prev
       ELSE IF hits # {} THEN Min(hits) - 1
       ELSE Len(lines) - 1

\* the slice stopping at the Sources: line, lines[:idx]
SectionStop_keepSeparator(idx) == idx

\* the stop of the final slice, lines[:idx-1]
SectionStop(idx) == idx - 1

\* the lines that parse_status_output hands to the line parser
SinkSectionLines(status_output) ==
    LET lines  == split_on(status_output, "\n")
        idx1   == LoopBreakIdx(lines, SinksMarker, 0)
        lines2 == From0(lines, idx1 + 1)
        idx2   == LoopBreakIdx(lines2, SourcesMarker, idx1)
    IN Upto0(lines2, SectionStop(idx2))

\* the list comprehension: the records of the lines in order, or the
\* exception of the first line that does not parse
RECURSIVE ParseLines(_, _)
ParseLines(lines, acc) ==
    IF lines = <<>> THEN [err |-> "", sinks |-> acc]
    ELSE LET r == parse_sink_status_line(Head(lines))
         IN IF r.err # "" THEN [err |-> r.err, sinks |-> <<>>]
            ELSE ParseLines(Tail(lines), Append(acc, r.sink))

parse_status_output(status_output) ==
    ParseLines(SinkSectionLines(status_output), <<>>)

\* the get-volume reply as WirePlumberConnection.get_volume reads it
parse_get_volume(reply) ==
    LET out == split(reply)
    IN IF Len(out) < 2 THEN [err |-> "IndexError", volume |-> 0, is_muted |-> FALSE]
       ELSE IF ~FloatLiteral(At0(out, 1))
            THEN [err |-> "ValueError", volume |-> 0, is_muted |-> FALSE]
            ELSE [err      |-> "",
                  volume   |-> Times100(float(At0(out, 1))),
                  is_muted |-> InList(MutedTag, out)]

\* next_sink's scan: idx after "for idx in range(len(sinks)): if
\* sinks[idx].is_default: break", idx being 0 before the loop
ScanIdx(sinks) ==
    IF \E i \in 1..Len(sinks) : sinks[i].is_default
    THEN (CHOOSE i \in 1..Len(sinks) :
             /\ sinks[i].is_default
             /\ \A j \in 1..(i - 1) : ~sinks[j].is_default) - 1
    ELSE IF Len(sinks) = 0 THEN 0 ELSE Len(sinks) - 1

\* the guard written with <=
ScanInBounds_inclusive(idx, sinks) == idx <= Len(sinks)

\* the guard of the set_default call
ScanInBounds(idx, sinks) == idx < Len(sinks)

\* the default set again, idx not advanced
NextSinkId_same(idx, sinks) == At0(sinks, idx % Len(sinks)).object_id

\* idx advanced by two
NextSinkId_skip(idx, sinks) == At0(sinks, (idx + 2) % Len(sinks)).object_id

\* the argument of the set_default call
NextSinkId(idx, sinks) == At0(sinks, (idx + 1) % Len(sinks)).object_id

\* ------------------------------------------------------- the audio service
\* What wpctl prints.  The status report is built from the service's sinks
\* and the report format; "|" stands for the tree-drawing character that
\* wpctl puts at the start of each line of a section.
Str_Audio == <<"A", "u", "d", "i", "o">>

Str_FiltersLine == <<" ", "|", "-", " ", "F", "i", "l", "t", "e", "r", "s", ":">>

Str_TreePrefix == <<" ", "|", " ", " ">>

Str_VolTag == <<"[", "v", "o", "l", ":", " ", "0", ".", "5", "0", "]">>

Str_Volume == <<"V", "o", "l", "u", "m", "e", ":">>

SinkTable ==
    << [id |-> 2,   nick |-> <<"U", "S", "B", " ", "H", "e", "a", "d", "s", "e", "t">>, tag |-> FALSE],
       [id |-> 1,   nick |-> <<"B", "u", "i", "l", "t", "-", "i", "n", " ", "A", "u", "d", "i", "o">>, tag |-> TRUE],
       [id |-> 46,  nick |-> <<"H", "D", "M", "I", " ", "O", "u", "t">>, tag |-> TRUE],
       [id |-> 47,  nick |-> <<"S", "p", "e", "a", "k", "e", "r">>, tag |-> FALSE],
       [id |-> 105, nick |-> <<"D", "o", "c", "k">>, tag |-> TRUE] >>

RECURSIVE FormatInt(_)
FormatInt(n) ==
    IF n < 10 THEN <<DigitChars[n + 1]>>
    ELSE FormatInt(n \div 10) \o <<DigitChars[(n % 10) + 1]>>

\* "%.2f" of a volume held in hundredths
FormatFraction(v) ==
    FormatInt(v \div 100) \o <<".">> \o <<DigitChars[((v \div 10) % 10) + 1]>>
        \o <<DigitChars[(v % 10) + 1]>>

\* a report with both marker lines and the separator line
WellFormed(f) == f.sinksMarker /\ f.sourcesMarker /\ f.separator

\* the layouts tried: with the tree prefix, any of the Sinks: line, the
\* Sources: line, the separator and the lines after Sources: may be missing;
\* without the prefix the report is otherwise well-formed
Formats ==
    {f \in [sinksMarker : BOOLEAN, sourcesMarker : BOOLEAN, separator : BOOLEAN,
            tree : BOOLEAN, trailer : BOOLEAN] : f.tree \/ WellFormed(f)}

SinkLine(f, i, flagged) ==
    (IF f.tree THEN Str_TreePrefix ELSE <<>>)
        \o (IF flagged THEN <<"*">> ELSE <<" ">>)
        \o <<" ", " ">> \o FormatInt(SinkTable[i].id) \o <<".", " ", " ">>
        \o SinkTable[i].nick
        \o (IF SinkTable[i].tag THEN <<" ", " ">> \o Str_VolTag ELSE <<>>)

SeparatorLine(f) == IF f.tree THEN Str_TreePrefix ELSE <<>>

MarkerLine(f, marker) == (IF f.tree THEN <<" ", "|", "-", " ">> ELSE <<>>) \o marker

StatusLines(f, n, flagged) ==
    <<Str_Audio>>
        \o (IF f.sinksMarker THEN <<MarkerLine(f, SinksMarker)>> ELSE <<>>)
        \o [i \in 1..n |-> SinkLine(f, i, i \in flagged)]
        \o (IF f.separator THEN <<SeparatorLine(f)>> ELSE <<>>)
        \o (IF f.sourcesMarker THEN <<MarkerLine(f, SourcesMarker)>> ELSE <<>>)
        \o (IF f.trailer THEN <<Str_FiltersLine>> ELSE <<>>)

\* the reply to "wpctl status --nick"
StatusReply(f, n, flagged) == join(<<"\n">>, StatusLines(f, n, flagged)) \o <<"\n">>

\* the reply to "wpctl get-volume @DEFAULT_AUDIO_SINK@"
GetVolumeReply(v, muted) ==
    Str_Volume \o <<" ">> \o FormatFraction(v)
        \o (IF muted THEN <<" ">> \o MutedTag ELSE <<>>) \o <<"\n">>

\* the service's default sink as a position in its list, 0 when none is
FirstFlagged(flagged) == IF flagged = {} THEN 0 ELSE Min(flagged)

PositionOfId(n, id) ==
    IF \E i \in 1..n : SinkTable[i].id = id
    THEN CHOOSE i \in 1..n : SinkTable[i].id = id
    ELSE 0

\* wpctl set-volume <sink> <value><sign> --limit 1
VolumeAfter(v, value, sign) ==
    IF sign = INCREASE THEN (IF v + value > 100 THEN 100 ELSE v + value)
    ELSE IF sign = DECREASE THEN (IF v - value < 0 THEN 0 ELSE v - value)
    ELSE (IF value > 100 THEN 100 ELSE value)

\* wpctl set-mute <sink> 1|0|toggle
MuteAfter(muted, state) ==
    IF state = TOGGLE THEN ~muted ELSE state = MUTED

\* ------------------------------------------------------------------ state
Invocations == {"a", "b"}

\* WirePlumberVolume.__init__: 'step': 0.05
step == 5

\* the value arguments tried: omitted, 0, and 0.10
Values == {None, 0, 10}

VARIABLES
    wpFormat,     \* the report format of the installed wpctl
    svcCount,     \* how many sinks the service has (the first of SinkTable)
    svcFlagged,   \* the positions the status report flags with '*'
    svcVolume,    \* the default sink's volume, in hundredths
    svcMuted,     \* the default sink's mute state
    pc,           \* per invocation: where its command stands
    op,           \* per invocation: the command it runs or ran last
    value,        \* per invocation: the value argument of that command
    sinks,        \* per invocation: next_sink's local sinks
    idx,          \* per invocation: next_sink's local idx
    snapshot,     \* per invocation: the flagged positions its status query saw
    calls,        \* per invocation: the wpctl commands of that command
    outcome,      \* per invocation: "" running/none, "ok", or the exception
    result,       \* per invocation: what get_volume returned last
    recent,       \* the last four status / set-default calls that succeeded
    started       \* the number of commands started

vars == <<wpFormat, svcCount, svcFlagged, svcVolume, svcMuted, pc, op, value,
          sinks, idx, snapshot, calls, outcome, result, recent, started>>

svcVars == <<svcFlagged, svcVolume, svcMuted>>

NoResult == [reply |-> <<>>, volume |-> 0, is_muted |-> FALSE]

\* cmd of set_volume / set_mute / get_volume / set_default / list_sinks; sink
\* None is the "@DEFAULT_AUDIO_SINK@" placeholder
Cmd(name, sink, val, tok, ok) ==
    [name |-> name, sink |-> sink, value |-> val, tok |-> tok, ok |-> ok]

set_volume_cmd(val, sign, ok) == Cmd("set-volume", None, val, sign, ok)

set_mute_cmd(state, ok) == Cmd("set-mute", None, None, state, ok)

get_volume_cmd(ok) == Cmd("get-volume", None, None, "", ok)

set_default_cmd(sink, ok) == Cmd("set-default", sink, None, "", ok)

list_sinks_cmd(ok) == Cmd("status", None, None, "--nick", ok)

\* value or self.step
ValueOrStep(v) == IF v = None \/ v = 0 THEN step ELSE v

Event(p, kind, id) ==
    [inv |-> p, kind |-> kind, id |-> id, before |-> FirstFlagged(svcFlagged)]

Push(e) == IF Len(recent) < 4 THEN Append(recent, e) ELSE Append(Tail(recent), e)

\* the format of the wpctl the parser is written for
StandardFormat ==
    [sinksMarker |-> TRUE, sourcesMarker |-> TRUE, separator |-> TRUE,
     tree |-> TRUE, trailer |-> TRUE]

InitInvocations ==
    /\ pc = [p \in Invocations |-> "idle"]
    /\ op = [p \in Invocations |-> ""]
    /\ value = [p \in Invocations |-> None]
    /\ sinks = [p \in Invocations |-> <<>>]
    /\ idx = [p \in Invocations |-> 0]
    /\ snapshot = [p \in Invocations |-> {}]
    /\ calls = [p \in Invocations |-> <<>>]
    /\ outcome = [p \in Invocations |-> ""]
    /\ result = [p \in Invocations |-> NoResult]
    /\ recent = <<>>
    /\ started = 0

\* the widget against a standard wpctl: no sink or MaxSinks of them, the
\* last one the default or none, any mute state
Init ==
    /\ wpFormat = StandardFormat
    /\ svcCount \in {0, MaxSinks}
    /\ svcFlagged \in {{}} \cup {{k} : k \in {svcCount} \cap (1..svcCount)}
    /\ svcVolume = 37
    /\ svcMuted \in BOOLEAN
    /\ InitInvocations

\* the volume commands against any volume and mute state
InitVolume ==
    /\ wpFormat = StandardFormat
    /\ svcCount = 1
    /\ svcFlagged = {1}
    /\ svcVolume \in {0, 5, 37, 100}
    /\ svcMuted \in BOOLEAN
    /\ InitInvocations

\* sink cycling against any report format and any set of flagged sinks
InitSinks ==
    /\ wpFormat \in Formats
    /\ svcCount \in 0..MaxSinks
    /\ svcFlagged \in SUBSET (1..svcCount)
    /\ svcVolume = 37
    /\ svcMuted = FALSE
    /\ InitInvocations

\* a command starts: the locals of the invocation are fresh
Start(p, name, v) ==
    /\ pc[p] = "idle"
    /\ started < MaxCmds
    /\ started' = started + 1
    /\ op' = [op EXCEPT ![p] = name]
    /\ value' = [value EXCEPT ![p] = v]

\* the locals and the return value of a command that has just started
FreshSinks(p) ==
    /\ sinks' = [sinks EXCEPT ![p] = <<>>]
    /\ idx' = [idx EXCEPT ![p] = 0]
    /\ snapshot' = [snapshot EXCEPT ![p] = {}]

FreshResult(p) == result' = [result EXCEPT ![p] = NoResult]

\* the command ends, normally ("ok") or with an exception
Finish(p, how) ==
    /\ pc' = [pc EXCEPT ![p] = "idle"]
    /\ outcome' = [outcome EXCEPT ![p] = how]

\* subprocess.check_output raises when wpctl fails
ProcessError == "CalledProcessError"

\* mute: one set-mute toggle
mute(p) ==
    \E ok \in BOOLEAN :
        /\ Start(p, "mute", None)
        /\ calls' = [calls EXCEPT ![p] = <<set_mute_cmd(TOGGLE, ok)>>]
        /\ svcMuted' = IF ok THEN MuteAfter(svcMuted, TOGGLE) ELSE svcMuted
        /\ Finish(p, IF ok THEN "ok" ELSE ProcessError)
        /\ FreshSinks(p)
        /\ FreshResult(p)
        /\ UNCHANGED <<wpFormat, svcCount, svcFlagged, svcVolume, recent>>

\* the failure of set_mute swallowed: the command goes on to set_volume
ChangeVolUnmute_swallow(p, name, v) ==
    \E ok \in BOOLEAN :
        /\ Start(p, name, v)
        /\ calls' = [calls EXCEPT ![p] = <<set_mute_cmd(UNMUTED, ok)>>]
        /\ svcMuted' = IF ok THEN MuteAfter(svcMuted, UNMUTED) ELSE svcMuted
        /\ pc' = [pc EXCEPT ![p] = "set_volume"]
        /\ outcome' = [outcome EXCEPT ![p] = ""]
        /\ FreshSinks(p)
        /\ FreshResult(p)
        /\ UNCHANGED <<wpFormat, svcCount, svcFlagged, svcVolume, recent>>

\* increase_vol / decrease_vol up to the return of set_mute
ChangeVolUnmute(p, name, v) ==
    \E ok \in BOOLEAN :
        /\ Start(p, name, v)
        /\ calls' = [calls EXCEPT ![p] = <<set_mute_cmd(UNMUTED, ok)>>]
        /\ svcMuted' = IF ok THEN MuteAfter(svcMuted, UNMUTED) ELSE svcMuted
        /\ IF ok
           THEN /\ pc' = [pc EXCEPT ![p] = "set_volume"]
                /\ outcome' = [outcome EXCEPT ![p] = ""]
           ELSE Finish(p, ProcessError)
        /\ FreshSinks(p)
        /\ FreshResult(p)
        /\ UNCHANGED <<wpFormat, svcCount, svcFlagged, svcVolume, recent>>

\* the sign that the command passes to set_volume
SignOf(name) == IF name = "increase_vol" THEN INCREASE ELSE DECREASE

\* increase_vol / decrease_vol from the call of set_volume on
ChangeVolSetVolume(p, name) ==
    \E ok \in BOOLEAN :
        /\ pc[p] = "set_volume"
        /\ op[p] = name
        /\ calls' = [calls EXCEPT ![p] =
               Append(@, set_volume_cmd(ValueOrStep(value[p]), SignOf(name), ok))]
        /\ svcVolume' = IF ok
                        THEN VolumeAfter(svcVolume, ValueOrStep(value[p]), SignOf(name))
                        ELSE svcVolume
        /\ Finish(p, IF ok THEN "ok" ELSE ProcessError)
        /\ UNCHANGED <<wpFormat, svcCount, svcFlagged, svcMuted, op, value, sinks,
                       idx, snapshot, result, recent, started>>

increase_vol(p) == \E v \in Values : ChangeVolUnmute(p, "increase_vol", v)

increase_vol_set_volume(p) == ChangeVolSetVolume(p, "increase_vol")

decrease_vol(p) == \E v \in Values : ChangeVolUnmute(p, "decrease_vol", v)

decrease_vol_set_volume(p) == ChangeVolSetVolume(p, "decrease_vol")

\* next_sink up to the test of idx: list_sinks, then the scan
next_sink(p) ==
    \E ok \in BOOLEAN :
        LET parsed == parse_status_output(StatusReply(wpFormat, svcCount, svcFlagged))
            found  == ScanIdx(parsed.sinks)
        IN /\ Start(p, "next_sink", None)
           /\ calls' = [calls EXCEPT ![p] = <<list_sinks_cmd(ok)>>]
           /\ IF ~ok
              THEN /\ Finish(p, ProcessError)
                   /\ FreshSinks(p)
                   /\ UNCHANGED recent
              ELSE IF parsed.err # ""
              THEN /\ Finish(p, parsed.err)
                   /\ sinks' = [sinks EXCEPT ![p] = <<>>]
                   /\ idx' = [idx EXCEPT ![p] = 0]
                   /\ snapshot' = [snapshot EXCEPT ![p] = svcFlagged]
                   /\ UNCHANGED recent
              ELSE /\ sinks' = [sinks EXCEPT ![p] = parsed.sinks]
                   /\ idx' = [idx EXCEPT ![p] = found]
                   /\ snapshot' = [snapshot EXCEPT ![p] = svcFlagged]
                   /\ recent' = Push(Event(p, "status", 0))
                   /\ IF ScanInBounds(found, parsed.sinks)
                      THEN /\ pc' = [pc EXCEPT ![p] = "set_default"]
                           /\ outcome' = [outcome EXCEPT ![p] = ""]
                      ELSE Finish(p, "ok")
           /\ FreshResult(p)
           /\ UNCHANGED <<wpFormat, svcCount, svcVars>>

\* next_sink from the call of set_default on
next_sink_set_default(p) ==
    \E ok \in BOOLEAN :
        LET id   == NextSinkId(idx[p], sinks[p])
            done == ok /\ PositionOfId(svcCount, id) # 0
        IN /\ pc[p] = "set_default"
           /\ calls' = [calls EXCEPT ![p] = Append(@, set_default_cmd(id, done))]
           /\ IF done
              THEN /\ svcFlagged' = {PositionOfId(svcCount, id)}
                   /\ recent' = Push(Event(p, "set-default", id))
                   /\ Finish(p, "ok")
              ELSE /\ UNCHANGED <<svcFlagged, recent>>
                   /\ Finish(p, ProcessError)
           /\ UNCHANGED <<wpFormat, svcCount, svcVolume, svcMuted, op, value, sinks,
                          idx, snapshot, result, started>>

\* get_volume: one get-volume query, parsed
get_volume(p) ==
    \E ok \in BOOLEAN :
        LET reply  == GetVolumeReply(svcVolume, svcMuted)
            parsed == parse_get_volume(reply)
        IN /\ Start(p, "get_volume", None)
           /\ calls' = [calls EXCEPT ![p] = <<get_volume_cmd(ok)>>]
           /\ IF ~ok
              THEN /\ Finish(p, ProcessError)
                   /\ FreshResult(p)
              ELSE IF parsed.err # ""
              THEN /\ Finish(p, parsed.err)
                   /\ FreshResult(p)
              ELSE /\ result' = [result EXCEPT ![p] =
                          [reply |-> reply, volume |-> parsed.volume,
                           is_muted |-> parsed.is_muted]]
                   /\ Finish(p, "ok")
           /\ FreshSinks(p)
           /\ UNCHANGED <<wpFormat, svcCount, svcVars, recent>>

Next ==
    \E p \in Invocations :
        \/ mute(p)
        \/ increase_vol(p)
        \/ increase_vol_set_volume(p)
        \/ decrease_vol(p)
        \/ decrease_vol_set_volume(p)
        \/ next_sink(p)
        \/ next_sink_set_default(p)
        \/ get_volume(p)

Spec == Init /\ [][Next]_vars

NextSinks ==
    \E p \in Invocations :
        \/ next_sink(p)
        \/ next_sink_set_default(p)

SpecSinks == InitSinks /\ [][NextSinks]_vars

NextVolume ==
    \E p \in Invocations :
        \/ mute(p)
        \/ increase_vol(p)
        \/ increase_vol_set_volume(p)
        \/ decrease_vol(p)
        \/ decrease_vol_set_volume(p)
        \/ get_volume(p)

SpecVolume == InitVolume /\ [][NextVolume]_vars

\* ------------------------------------------------------------- properties
\* the wpctl commands of a given name that invocation p's command issued
CallsNamed(p, name) == SelectSeq(calls[p], LAMBDA c : c.name = name)

\* p's command is next_sink and its status query came back
Queried(p) ==
    /\ op[p] = "next_sink"
    /\ calls[p] # <<>>
    /\ calls[p][1].ok

\* list_sinks returned a list to p's next_sink
Listed(p) == Queried(p) /\ outcome[p] \notin {"IndexError", "ValueError"}

HasDefault(s) == \E i \in 1..Len(s) : s[i].is_default

\* the 0-based index of the first entry flagged default
FirstDefault(s) ==
    (CHOOSE i \in 1..Len(s) :
        s[i].is_default /\ \A j \in 1..(i - 1) : ~s[j].is_default) - 1

\* the sink lines of the report that p's status query read
SeenLine(p, i) == SinkLine(wpFormat, i, i \in snapshot[p])

\* the record the service's i-th sink stands for in that report
SeenSink(p, i) == WirePlumberSink(SinkTable[i].id, SinkTable[i].nick, i \in snapshot[p])

\* C1: when the list that list_sinks returned has N >= 1 entries and its
\* first entry flagged default is at index k, next_sink issues exactly one
\* set-default, for the object id of the entry at index (k+1) mod N.
C1_NextSinkSetsSuccessor ==
    \A p \in Invocations :
        (Listed(p) /\ Len(sinks[p]) >= 1 /\ HasDefault(sinks[p])) =>
            LET N  == Len(sinks[p])
                k  == FirstDefault(sinks[p])
                sd == CallsNamed(p, "set-default")
            IN /\ Len(sd) = (IF pc[p] = "idle" THEN 1 ELSE 0)
               /\ \A i \in 1..Len(sd) :
                      sd[i].sink = At0(sinks[p], (k + 1) % N).object_id

\* the default is the last entry of a list of two or more: next_sink wrapped
\* to the first entry
C1_Witness ==
    \E p \in Invocations :
        /\ Listed(p) /\ pc[p] = "idle"
        /\ Len(sinks[p]) >= 2
        /\ HasDefault(sinks[p])
        /\ FirstDefault(sinks[p]) = Len(sinks[p]) - 1
        /\ CallsNamed(p, "set-default") # <<>>
        /\ CallsNamed(p, "set-default")[1].sink = sinks[p][1].object_id

\* C2: when no entry of the list that list_sinks returned is flagged
\* default, next_sink issues no set-default and raises nothing.
C2_NoDefaultNoSetDefault ==
    \A p \in Invocations :
        (Listed(p) /\ ~HasDefault(sinks[p])) =>
            /\ CallsNamed(p, "set-default") = <<>>
            /\ pc[p] = "idle"
            /\ outcome[p] = "ok"

\* C3: in increase_vol and decrease_vol the set-volume command comes right
\* after a set-mute '0' on the default sink, and carries the sign of the
\* command and the value argument, or the step when the value is omitted.
C3_UnmuteThenVolume ==
    \A p \in Invocations :
        op[p] \in {"increase_vol", "decrease_vol"} =>
            \A i \in 1..Len(calls[p]) :
                calls[p][i].name = "set-volume" =>
                    /\ i > 1
                    /\ calls[p][i - 1].name = "set-mute"
                    /\ calls[p][i - 1].tok = "0"
                    /\ calls[p][i - 1].sink = None
                    /\ calls[p][i].sink = None
                    /\ calls[p][i].tok = (IF op[p] = "increase_vol" THEN "+" ELSE "-")
                    /\ calls[p][i].value = (IF value[p] = None THEN step ELSE value[p])

\* the sink lines of the report are lines that the line parser reads
SinkLinesParse(p) ==
    \A i \in 1..svcCount : parse_sink_status_line(SeenLine(p, i)).err = ""

\* C4: from a well-formed report (the Sinks: line, N sink lines, one
\* separator line, the Sources: line) list_sinks returns N records, the
\* i-th parsed from the i-th sink line.
C4_OneRecordPerSinkLine ==
    \A p \in Invocations :
        (Queried(p) /\ WellFormed(wpFormat) /\ SinkLinesParse(p)) =>
            /\ Listed(p)
            /\ Len(sinks[p]) = svcCount
            /\ \A i \in 1..svcCount :
                   sinks[p][i] = parse_sink_status_line(SeenLine(p, i)).sink

C4_Witness ==
    \E p \in Invocations :
        /\ Queried(p) /\ WellFormed(wpFormat) /\ SinkLinesParse(p)
        /\ svcCount >= 2
        /\ Len(sinks[p]) = svcCount

\* the two lines of the examples, as the report without tree prefix has them
ExampleDefaultLine == <<"*", " ", " ", "1", ".", " ", " ", "B", "u", "i", "l", "t", "-", "i", "n", " ", "A", "u", "d", "i", "o", " ", " ", "[", "v", "o", "l", ":", " ", "0", ".", "5", "0", "]">>

ExamplePlainLine == <<" ", " ", " ", "2", ".", " ", " ", "U", "S", "B", " ", "H", "e", "a", "d", "s", "e", "t">>

\* C5 as stated: a line made of an optional '*', the '<id>.' token, name
\* tokens and optional '[' tokens parses to (id, name, starred).
C5_BareLineParses ==
    \A p \in Invocations :
        (Queried(p) /\ WellFormed(wpFormat) /\ ~wpFormat.tree) =>
            /\ SinkLine(wpFormat, 2, TRUE) = ExampleDefaultLine
            /\ SinkLine(wpFormat, 1, FALSE) = ExamplePlainLine
            /\ Listed(p)
            /\ Len(sinks[p]) = svcCount
            /\ \A i \in 1..svcCount : sinks[p][i] = SeenSink(p, i)

\* C5 as amended: a line made of one leading token, an optional '*', the
\* '<id>.' token, name tokens and optional '[' tokens parses to (id, name
\* joined by single spaces, starred).
C5_PrefixedLineParses ==
    \A p \in Invocations :
        (Queried(p) /\ WellFormed(wpFormat) /\ wpFormat.tree) =>
            /\ SinkLine(wpFormat, 2, TRUE) = Str_TreePrefix \o ExampleDefaultLine
            /\ SinkLine(wpFormat, 1, FALSE) = Str_TreePrefix \o ExamplePlainLine
            /\ Listed(p)
            /\ Len(sinks[p]) = svcCount
            /\ \A i \in 1..svcCount : sinks[p][i] = SeenSink(p, i)

\* both example lines were read: '2. USB Headset' plain, '1. Built-in Audio
\* [vol: 0.50]' starred
C5_Witness ==
    \E p \in Invocations :
        /\ Queried(p) /\ WellFormed(wpFormat) /\ wpFormat.tree
        /\ Len(sinks[p]) >= 2
        /\ sinks[p][1] = WirePlumberSink(2, SinkTable[1].nick, FALSE)
        /\ sinks[p][2] = WirePlumberSink(1, SinkTable[2].nick, TRUE)

ExampleReply == <<"V", "o", "l", "u", "m", "e", ":", " ", "0", ".", "3", "7", "\n">>

ExampleMutedReply == <<"V", "o", "l", "u", "m", "e", ":", " ", "0", ".", "3", "7", " ", "[", "M", "U", "T", "E", "D", "]", "\n">>

\* C6: for the reply 'Volume: <fraction>' with an optional '[MUTED]',
\* get_volume returns (100 x fraction, whether the tag is there).
C6_GetVolumeReads ==
    \A p \in Invocations :
        result[p].reply # <<>> =>
            /\ \E v \in 0..100, m \in BOOLEAN : result[p].reply = GetVolumeReply(v, m)
            /\ \A v \in 0..100, m \in BOOLEAN :
                   result[p].reply = GetVolumeReply(v, m) =>
                       (result[p].volume = v /\ result[p].is_muted = m)
            /\ result[p].reply = ExampleReply =>
                   (result[p].volume = 37 /\ ~result[p].is_muted)
            /\ result[p].reply = ExampleMutedReply =>
                   (result[p].volume = 37 /\ result[p].is_muted)
            /\ result[p].is_muted = Contains(result[p].reply, MutedTag)

C6_Witness ==
    \E p \in Invocations :
        /\ result[p].reply = ExampleMutedReply
        /\ result[p].volume = 37
        /\ result[p].is_muted

\* C7: with an empty sink section (Sinks: line, separator line, Sources:
\* line) list_sinks returns the empty list and next_sink ends normally
\* without a set-default.
C7_EmptySectionNoOp ==
    \A p \in Invocations :
        (Queried(p) /\ WellFormed(wpFormat) /\ svcCount = 0) =>
            /\ Listed(p)
            /\ sinks[p] = <<>>
            /\ pc[p] = "idle"
            /\ outcome[p] = "ok"
            /\ CallsNamed(p, "set-default") = <<>>

C7_Witness ==
    \E p \in Invocations :
        /\ Queried(p) /\ WellFormed(wpFormat) /\ svcCount = 0
        /\ outcome[p] = "ok"

\* C8 as stated: a report without the Sinks: line or without the Sources:
\* line ends list_sinks in an index or parsing error, and no set-default
\* follows.
C8_MissingMarkerRaises ==
    \A p \in Invocations :
        (Queried(p) /\ (~wpFormat.sinksMarker \/ ~wpFormat.sourcesMarker)) =>
            /\ outcome[p] \in {"IndexError", "ValueError"}
            /\ CallsNamed(p, "set-default") = <<>>

\* the lines of the report after the Sinks: line when the Sources: line is
\* missing, the last of them the empty piece after the final newline
RestWithoutSources(p) ==
    [i \in 1..svcCount |-> SeenLine(p, i)]
        \o (IF wpFormat.separator THEN <<SeparatorLine(wpFormat)>> ELSE <<>>)
        \o (IF wpFormat.trailer THEN <<Str_FiltersLine>> ELSE <<>>)
        \o << <<>> >>

\* all of them but the last two
KeptWithoutSources(p) ==
    LET rest == RestWithoutSources(p)
    IN SubSeq(rest, 1, IF Len(rest) >= 2 THEN Len(rest) - 2 ELSE 0)

\* C8 as amended: without the Sinks: line list_sinks returns the empty list
\* and next_sink ends normally without a set-default; without the Sources:
\* line list_sinks parses all but the last two of the lines after the Sinks:
\* line, and raises only when one of those is not a sink line.
C8_MissingMarkerLenient ==
    \A p \in Invocations :
        /\ (Queried(p) /\ ~wpFormat.sinksMarker) =>
               /\ sinks[p] = <<>>
               /\ pc[p] = "idle"
               /\ outcome[p] = "ok"
               /\ CallsNamed(p, "set-default") = <<>>
        /\ (Queried(p) /\ wpFormat.sinksMarker /\ ~wpFormat.sourcesMarker) =>
               LET kept == KeptWithoutSources(p)
                   bad  == {i \in 1..Len(kept) : parse_sink_status_line(kept[i]).err # ""}
               IN IF bad = {}
                  THEN /\ Listed(p)
                       /\ sinks[p] = [i \in 1..Len(kept) |->
                                         parse_sink_status_line(kept[i]).sink]
                  ELSE /\ outcome[p] = parse_sink_status_line(kept[Min(bad)]).err
                       /\ pc[p] = "idle"
                       /\ CallsNamed(p, "set-default") = <<>>

\* a report without the Sources: line gave a list, and set-default followed
C8_Witness ==
    \E p \in Invocations :
        /\ Queried(p) /\ wpFormat.sinksMarker /\ ~wpFormat.sourcesMarker
        /\ Len(sinks[p]) >= 1
        /\ outcome[p] = "ok"
        /\ CallsNamed(p, "set-default") # <<>>
        /\ CallsNamed(p, "set-default")[1].ok

\* the position after k in the service's list, wrapping
Succ(k) == (k % svcCount) + 1

Interleaved ==
    /\ Len(recent) = 4
    /\ recent[1].kind = "status" /\ recent[2].kind = "status"
    /\ recent[3].kind = "set-default" /\ recent[4].kind = "set-default"
    /\ recent[1].inv # recent[2].inv
    /\ recent[3].inv # recent[4].inv

Sequential ==
    /\ Len(recent) = 4
    /\ recent[1].kind = "status" /\ recent[2].kind = "set-default"
    /\ recent[3].kind = "status" /\ recent[4].kind = "set-default"
    /\ recent[1].inv = recent[2].inv
    /\ recent[3].inv = recent[4].inv

\* C9: two next_sink invocations that both finish their status query before
\* either issues set-default both set the same sink, and the default ends
\* one position further (a lost update); run one after the other they move
\* it two positions, modulo N.
C9_LostUpdate ==
    (WellFormed(wpFormat) /\ wpFormat.tree /\ Len(recent) = 4 /\ recent[1].before >= 1) =>
        /\ Interleaved =>
               /\ recent[3].id = recent[4].id
               /\ svcFlagged = {Succ(recent[1].before)}
        /\ Sequential => svcFlagged = {Succ(Succ(recent[1].before))}

C9_Witness ==
    /\ WellFormed(wpFormat) /\ wpFormat.tree
    /\ Interleaved
    /\ svcCount >= 2
    /\ recent[1].before >= 1
    /\ svcFlagged = {Succ(recent[1].before)}
    /\ svcFlagged # {Succ(Succ(recent[1].before))}

\* C10: a wpctl failure ends the command at once with the process error: the
\* failed call is the last one of the command (no retry, nothing after it),
\* no call is issued twice, and a command that ended normally had no failed
\* call.
C10_FailurePropagates ==
    \A p \in Invocations :
        /\ \A i \in 1..Len(calls[p]) :
               ~calls[p][i].ok =>
                   /\ i = Len(calls[p])
                   /\ pc[p] = "idle"
                   /\ outcome[p] = ProcessError
        /\ \A i, j \in 1..Len(calls[p]) :
               calls[p][i].name = calls[p][j].name => i = j
        /\ (op[p] \in {"increase_vol", "decrease_vol"} /\ ~calls[p][1].ok) =>
               CallsNamed(p, "set-volume") = <<>>
        /\ (op[p] = "next_sink" /\ ~calls[p][1].ok) =>
               CallsNamed(p, "set-default") = <<>>
        /\ outcome[p] = "ok" => \A i \in 1..Len(calls[p]) : calls[p][i].ok

\* the unmute of an increase_vol failed, and so did the status query of a
\* next_sink
C10_Witness ==
    \E p, q \in Invocations :
        /\ op[p] = "increase_vol" /\ calls[p] = <<set_mute_cmd(UNMUTED, FALSE)>>
        /\ outcome[p] = ProcessError
        /\ op[q] = "next_sink" /\ calls[q] = <<list_sinks_cmd(FALSE)>>
        /\ outcome[q] = ProcessError

====
